---- MODULE Spec2Model ----
(***************************************************************************)
(* A model of linty (src/main.rs): a regex linter driven by a JSON rule    *)
(* file.  Text (paths, file contents, globs, input lines) is modelled as   *)
(* sequences of one-character strings so that trimming, glob matching,     *)
(* regex search and line counting are computed, not assumed.               *)
(***************************************************************************)
EXTENDS Integers, Sequences, FiniteSets

\* ------------------------------------------------------------------ bounds
\* Most rules in one configuration file.
MaxRules == 2
\* Most entries the directory walk yields in one run.
MaxEntries == 2
\* Most prompts issued in one run (the prompt loop itself is unbounded).
MaxPrompts == 2
\* Most consecutive invocations of the init subcommand.
MaxInits == 2

\* Exit status of a Rust process that panics (unwrap on None, a println!
\* whose write fails).
PanicExitCode == 101

\* ------------------------------------------------------------ text helpers
Range(s) == {s[i] : i \in 1..Len(s)}

IsPrefix(p, s) == Len(p) <= Len(s) /\ SubSeq(s, 1, Len(p)) = p

\* A byte string (OsString, a line of stdin) is a sequence of characters and
\* of the token "0xFF", a byte no UTF-8 text contains.  OsStr::to_str gives
\* Some and String::from_utf8 / read_line give Ok exactly for valid UTF-8.
IsUtf8(bytes) == "0xFF" \notin Range(bytes)

\* char::is_whitespace, on the characters the model uses.
IsWhitespace(c) == c \in {" ", "\n", "\t"}

RECURSIVE TrimStart(_)
TrimStart(s) ==
    IF s /= <<>> /\ IsWhitespace(Head(s)) THEN TrimStart(Tail(s)) ELSE s

RECURSIVE TrimEnd(_)
TrimEnd(s) ==
    IF s /= <<>> /\ IsWhitespace(s[Len(s)])
    THEN TrimEnd(SubSeq(s, 1, Len(s) - 1))
    ELSE s

\* str::trim, as used on the line read from stdin.
Trim(s) == TrimEnd(TrimStart(s))

\* usize::to_string for the line numbers the model can produce.
RECURSIVE UsizeToString(_)
UsizeToString(n) ==
    LET digit == <<"0", "1", "2", "3", "4", "5", "6", "7", "8", "9">>[(n % 10) + 1]
    IN IF n < 10 THEN <<digit>> ELSE UsizeToString(n \div 10) \o <<digit>>

\* lines.iter().map(to_string).collect::<Vec<String>>().join(", ")
RECURSIVE JoinLines(_)
JoinLines(lines) ==
    IF lines = <<>> THEN <<>>
    ELSE IF Len(lines) = 1 THEN UsizeToString(lines[1])
    ELSE UsizeToString(lines[1]) \o <<",", " ">> \o JoinLines(Tail(lines))

\* ------------------------------------------------------------------- globs
\* globset's Glob::is_match with default options: the glob is matched against
\* the whole path, '*' and '?' also match the path separator.
RECURSIVE GlobMatch(_, _)
GlobMatch(glob, path) ==
    IF glob = <<>> THEN path = <<>>
    ELSE IF Head(glob) = "*"
         THEN GlobMatch(Tail(glob), path)
              \/ (path /= <<>> /\ GlobMatch(glob, Tail(path)))
    ELSE IF Head(glob) = "?"
         THEN path /= <<>> /\ GlobMatch(Tail(glob), Tail(path))
    ELSE path /= <<>> /\ Head(path) = Head(glob)
         /\ GlobMatch(Tail(glob), Tail(path))

\* GlobSet::is_empty and GlobSet::is_match.
GlobSetIsEmpty(globs) == Len(globs) = 0
GlobSetIsMatch(globs, path) == \E i \in 1..Len(globs) : GlobMatch(globs[i], path)

\* ------------------------------------------------------------------- regex
\* A compiled regex is an ordered list of non-empty literal alternatives
\* (a|b|...).  MatchLenAt is the length of the leftmost-first match that
\* starts at 0-based offset k of text, 0 when none starts there.
RECURSIVE FirstAlt(_, _, _)
FirstAlt(alts, text, k) ==
    IF alts = <<>> THEN 0
    ELSE IF IsPrefix(Head(alts), SubSeq(text, k + 1, Len(text)))
         THEN Len(Head(alts))
    ELSE FirstAlt(Tail(alts), text, k)

MatchLenAt(regex, text, k) == FirstAlt(regex, text, k)

\* Regex::find_iter: start offsets of the successive non-overlapping matches.
RECURSIVE FindIterFrom(_, _, _)
FindIterFrom(regex, text, k) ==
    IF k >= Len(text) THEN <<>>
    ELSE IF MatchLenAt(regex, text, k) > 0
         THEN <<k>> \o FindIterFrom(regex, text, k + MatchLenAt(regex, text, k))
    ELSE FindIterFrom(regex, text, k + 1)

FindIter(regex, text) == FindIterFrom(regex, text, 0)

IsNewline(c) == c = "\n"

\* Mutant: line numbers start at 0.
offending_line_zero_based(text, start) ==
    Len(SelectSeq(SubSeq(text, 1, start), IsNewline))

\* file_contents[..start].chars().filter(|&c| c == '\n').count() + 1
offending_line(text, start) == Len(SelectSeq(SubSeq(text, 1, start), IsNewline)) + 1

\* The lines vector built by the loop over find_iter.
MatchLines(regex, text) ==
    LET starts == FindIter(regex, text)
    IN [i \in 1..Len(starts) |-> offending_line(text, starts[i])]

\* ------------------------------------------------------- configuration file
\* serde's rename_all = "snake_case" names of Severity, and their parse.
SeverityJson(sev) == IF sev = "Warning" THEN "warning" ELSE "error"
ParseSeverity(s) == IF s = "warning" THEN "Warning" ELSE "Error"

\* Option<T> is a sequence of length 0 (None) or 1 (Some).
None == <<>>
Some(x) == <<x>>

\* A JSON document is a record; a RuleConfig object has the six keys of the
\* struct.  The regex source is kept in parsed form (its alternatives).
RuleJson(id, message, regex, sev, includes, excludes) ==
    [id |-> id, message |-> message, regex |-> regex, severity |-> sev,
     includes |-> includes, excludes |-> excludes]

\* The RuleConfig init_config builds and hands to serde_json::to_writer_pretty.
ExampleRuleConfig ==
    RuleJson("WarnOnTodos", "Are you sure you meant to leave a TODO?",
             << <<"T", "O", "D", "O">>, <<"t", "o", "d", "o">> >>,
             SeverityJson("Warning"), None, None)

\* Rules a user may have written into the configuration file.
RuleT ==
    RuleJson("A", "mA", << <<"T", "T">>, <<"T">> >>, "warning", None, None)
RuleB ==
    RuleJson("B", "mB", << <<"T", "T">> >>, "warning",
             Some(<< <<"*", ".", "m">> >>), Some(<< <<".", "/", "a", "*">> >>))
RuleX ==
    RuleJson("A", "mX", << <<"x">> >>, "error",
             Some(<<>>), Some(<< <<"*", ".", "t">> >>))

RuleE ==
    RuleJson("E", "mE", << <<"T">> >>, "error", None, None)

RuleUniverse == {RuleT, RuleB, RuleX, RuleE}

RECURSIVE SeqsUpTo(_, _)
SeqsUpTo(S, n) ==
    IF n = 0 THEN {<<>>}
    ELSE LET shorter == SeqsUpTo(S, n - 1)
         IN shorter \cup {Append(q, x) : q \in shorter, x \in S}

\* Documents with the top-level key "rules" (struct Config).
UserConfigs == {[rules |-> rs] : rs \in SeqsUpTo(RuleUniverse, MaxRules)}

\* read_config on the file at the default path (no --config-path is given in
\* the runs explored; the JSON and TOML forms hold the same document).
\* File::open fails when the file is absent; serde fails when the document
\* lacks the field "rules" (unknown fields are ignored).  The result is None
\* on Err and Some(config) on Ok.
read_config(file) ==
    IF file = None THEN None
    ELSE IF "rules" \in DOMAIN file[1]
         THEN Some([rules |-> [i \in 1..Len(file[1].rules) |->
                      [file[1].rules[i] EXCEPT
                          !.severity = ParseSeverity(file[1].rules[i].severity)]]])
    ELSE None

OptionOrEmpty(opt) == IF opt = None THEN <<>> ELSE opt[1]

\* generate_rules_from_config: one compiled Rule per RuleConfig, same order.
GenerateRule(rc) ==
    [id |-> rc.id, regex |-> rc.regex, severity |-> rc.severity,
     includes |-> OptionOrEmpty(rc.includes),
     excludes |-> OptionOrEmpty(rc.excludes)]

generate_rules_from_config(config) ==
    [i \in 1..Len(config.rules) |-> GenerateRule(config.rules[i])]

\* -------------------------------------------------------------- file system
CurrentDir == <<"/", "w", "/">>

\* One result of the directory walk.  walk: the iterator item is Ok or Err;
\* meta: what entry.metadata() gives; canon: entry.path().canonicalize();
\* open: File::open succeeds; utf8: read_to_string succeeds.
WalkItem(walk, path, meta, canonOk, open, utf8, content) ==
    [walk |-> walk, path |-> path, meta |-> meta,
     canon |-> IF canonOk THEN Some(CurrentDir \o SubSeq(path, 3, Len(path)))
               ELSE None,
     open |-> open, utf8 |-> utf8, content |-> content]

Tree ==
    << WalkItem("ok", <<".", "/", "a", ".", "m">>, "file", TRUE, TRUE, TRUE,
                <<"x", "\n", "T", "T">>),
       WalkItem("ok", <<".", "/", "d">>, "dir", TRUE, FALSE, FALSE, <<>>),
       WalkItem("ok", <<".", "/", "d", "/", "a", ".", "m">>, "file", TRUE, TRUE,
                TRUE, <<"T", "\n", "T", "T", "T">>),
       WalkItem("err", <<".", "/", "p">>, "fail", FALSE, FALSE, FALSE, <<>>),
       WalkItem("ok", <<".", "/", "e", ".", "m">>, "file", TRUE, TRUE, TRUE, <<>>),
       WalkItem("ok", <<".", "/", "l", ".", "m">>, "file", FALSE, FALSE, FALSE,
                <<>>),
       WalkItem("ok", <<".", "/", "g", ".", "m">>, "fail", TRUE, TRUE, TRUE,
                <<"T">>),
       WalkItem("ok", <<".", "/", "b", ".", "t">>, "file", TRUE, TRUE, FALSE,
                <<>>),
       WalkItem("ok", <<".", "/", "0xFF", ".", "m">>, "file", TRUE, TRUE, TRUE,
                <<"T", "T">>),
       WalkItem("ok", <<".", "/", "0xFF">>, "file", TRUE, FALSE, FALSE, <<>>) >>

\* Path::canonicalize of a path relative to the working directory.
Canonicalize(rel) ==
    LET hits == {i \in 1..Len(Tree) :
                    Tree[i].walk = "ok" /\ Tree[i].path = <<".", "/">> \o rel}
    IN IF hits = {} THEN None ELSE Tree[CHOOSE i \in hits : TRUE].canon

\* DirEntry::file_name: the last component of the path.
RECURSIVE FileName(_)
FileName(path) ==
    IF \E i \in 1..Len(path) : path[i] = "/"
    THEN FileName(Tail(path))
    ELSE path

\* Positional file arguments a run may be given, and what
\* `git diff --staged --name-only` may print.
FileArgs == {<<>>, << <<"a", ".", "m">> >>, << <<"z">> >>}
GitOutputs == {[success |-> FALSE, lines |-> <<>>],
               [success |-> TRUE, lines |-> <<>>],
               [success |-> TRUE, lines |-> << <<"a", ".", "m">> >>]}

\* Bytes the next line of stdin may hold: the text typed plus its newline,
\* nothing at end of input, or bytes that are not valid UTF-8 (on which
\* read_line returns Err).
InputLines == {<<"y", "\n">>, <<"n", "\n">>, <<" ", "y", "\n">>,
               <<"n", " ", "\n">>, <<"x", "\n">>, <<"\n">>, <<>>,
               <<"y", "0xFF", "\n">>}

\* ------------------------------------------------------------------- state
VARIABLES
    disk,             \* Option: the document stored at .lintyconfig.json
    pc,               \* position of the process in main
    args,             \* struct Args
    config,           \* struct Config
    rules,            \* Vec<Rule>
    specified_paths,  \* Vec<OsString>
    pos,              \* index in Tree of the last item the walk yielded
    yielded,          \* number of items the walk has yielded
    entry,            \* index in Tree of the entry being processed
    ruleIdx,          \* position of `for rule in &rules`
    file_contents,    \* String
    violations,       \* Vec<Violation>
    warnings_by_id,   \* HashMap<String, Vec<Violation>>
    errors_by_id,     \* HashMap<String, Vec<Violation>>
    warnKeys,         \* keys `for rule_id in warnings_by_id.keys()` has left
    errKeys,          \* keys `for rule_id in errors_by_id.keys()` has left
    stdout,           \* lines printed to standard output
    stderr,           \* lines printed to standard error
    exit_code,        \* -1 while the process runs, then its exit status
    reads,            \* history: File::open calls made for the current entry
    origin,           \* history: (rule, entry) that pushed each violation
    lastStep,         \* history: what the latest rule iteration did
    scanDone,         \* history: the walk loop of this run has ended
    prompts,          \* history: prompts printed in this run
    answer,           \* history: the latest prompt's flush, stdin bytes, input
    initLog           \* history: consecutive runs of the init subcommand

vars == <<disk, pc, args, config, rules, specified_paths, pos, yielded, entry,
          ruleIdx, file_contents, violations, warnings_by_id, errors_by_id,
          warnKeys, errKeys, stdout, stderr, exit_code, reads, origin,
          lastStep, scanDone, prompts, answer, initLog>>

\* One pass of the prompt loop: whether stdout().flush() succeeded, the bytes
\* stdin held for read_line, and `input` as read_line left it.
Asked(flushed, bytes, input) ==
    [flushed |-> flushed, stdin |-> bytes, input |-> input]
NoAnswer == Asked(TRUE, <<>>, <<>>)

EmptyMap == [k \in {} |-> <<>>]

NoArgs ==
    [command |-> "none", error_on_warning |-> FALSE, no_confirm |-> FALSE,
     pre_commit |-> FALSE, files |-> <<>>]

NoStep ==
    [rule |-> 0, entry |-> 0, passed |-> FALSE, scanned |-> FALSE,
     text |-> <<>>, pushed |-> FALSE]

\* One printed line.
Line(kind, id, message, file, lines) ==
    [kind |-> kind, id |-> id, message |-> message, file |-> file,
     lines |-> lines]

Say(kind) == Line(kind, "", "", <<>>, <<>>)

Init ==
    /\ disk \in {None} \cup {Some(c) : c \in UserConfigs}
    /\ pc = "idle"
    /\ args = NoArgs
    /\ config = [rules |-> <<>>]
    /\ rules = <<>>
    /\ specified_paths = <<>>
    /\ pos = 0
    /\ yielded = 0
    /\ entry = 0
    /\ ruleIdx = 0
    /\ file_contents = <<>>
    /\ violations = <<>>
    /\ warnings_by_id = EmptyMap
    /\ errors_by_id = EmptyMap
    /\ warnKeys = {}
    /\ errKeys = {}
    /\ stdout = <<>>
    /\ stderr = <<>>
    /\ exit_code = -1
    /\ reads = 0
    /\ origin = <<>>
    /\ lastStep = NoStep
    /\ scanDone = FALSE
    /\ prompts = 0
    /\ answer = NoAnswer
    /\ initLog = <<>>

\* A new process starts with nothing but the disk (and the history of init runs).
FreshScan ==
    /\ specified_paths' = <<>>
    /\ pos' = 0
    /\ yielded' = 0
    /\ entry' = 0
    /\ ruleIdx' = 0
    /\ file_contents' = <<>>
    /\ violations' = <<>>
    /\ warnings_by_id' = EmptyMap
    /\ errors_by_id' = EmptyMap
    /\ warnKeys' = {}
    /\ errKeys' = {}
    /\ reads' = 0
    /\ origin' = <<>>
    /\ lastStep' = NoStep
    /\ scanDone' = FALSE
    /\ prompts' = 0
    /\ answer' = NoAnswer

\* A lint run leaves the disk as it found it, so the sessions explored are any
\* number of init runs followed by one lint run.
MayStart == pc = "idle" \/ (pc = "exited" /\ args.command = "init")

\* --------------------------------------------------------------- init_config
\* init_config takes the write branch exactly when read_config fails.
InitConfigWrites(file) == read_config(file) = None

\* What File::create leaves when to_writer_pretty then fails: the file
\* exists, truncated, and holds no complete document.
TruncatedFile == [k \in {} |-> <<>>]

\* What init_config leaves on disk.  created: File::create succeeds;
\* written: to_writer_pretty succeeds.
InitConfigDisk(file, created, written) ==
    IF ~InitConfigWrites(file) \/ ~created THEN file
    ELSE IF written THEN Some(ExampleRuleConfig)
    ELSE Some(TruncatedFile)

\* The line init_config hands to println!, when it gets that far.
InitConfigSays(file) ==
    IF InitConfigWrites(file) THEN Say("Initialized example config at .lintyconfig")
    ELSE Say("Config already exists!")

\* How init_config ends: the `?` of File::create or of to_writer_pretty
\* returns the Err, a println! whose write fails panics, else Ok(()).
InitConfigEnds(file, created, written, printed) ==
    IF InitConfigWrites(file) /\ ~created THEN "Error: File::create"
    ELSE IF InitConfigWrites(file) /\ ~written THEN "Error: to_writer_pretty"
    ELSE IF ~printed THEN "thread main panicked"
    ELSE "Ok"

\* The exit status main ends with after init_config()?.
InitConfigExit(ends) ==
    IF ends = "Ok" THEN 0
    ELSE IF ends = "thread main panicked" THEN PanicExitCode
    ELSE 1

\* main with the Init subcommand: init_config()?; return Ok(()).
init_config ==
    /\ MayStart
    /\ Len(initLog) < MaxInits
    /\ args' = [NoArgs EXCEPT !.command = "init"]
    /\ \E created \in BOOLEAN, written \in BOOLEAN, printed \in BOOLEAN :
          LET ends == InitConfigEnds(disk, created, written, printed)
              after == InitConfigDisk(disk, created, written)
          IN /\ disk' = after
             /\ stdout' = IF ends = "Ok" THEN <<InitConfigSays(disk)>> ELSE <<>>
             /\ stderr' = IF ends = "Ok" THEN <<>> ELSE <<Say(ends)>>
             /\ exit_code' = InitConfigExit(ends)
             /\ initLog' = Append(initLog,
                                  [before |-> disk, after |-> after,
                                   wrote |-> /\ InitConfigWrites(disk)
                                             /\ created /\ written,
                                   said |-> IF ends = "Ok"
                                            THEN InitConfigSays(disk).kind
                                            ELSE "",
                                   exit |-> InitConfigExit(ends)])
    /\ pc' = "exited"
    /\ config' = [rules |-> <<>>]
    /\ rules' = <<>>
    /\ FreshScan

\* ------------------------------------------------------ main: lines 96-110
StartLint ==
    /\ MayStart
    /\ \E eow \in BOOLEAN, nc \in BOOLEAN, pre \in BOOLEAN, files \in FileArgs :
          /\ pre => files = <<>>
          /\ args' = [command |-> "lint", error_on_warning |-> eow,
                      no_confirm |-> nc, pre_commit |-> pre, files |-> files]
    /\ stdout' = <<>>
    /\ initLog' = <<>>
    /\ FreshScan
    /\ UNCHANGED disk
    /\ IF read_config(disk) = None
       THEN /\ stderr' = <<Say("Failed to find config file")>>
            /\ exit_code' = 1
            /\ pc' = "exited"
            /\ config' = [rules |-> <<>>]
            /\ rules' = <<>>
       ELSE /\ stderr' = <<>>
            /\ exit_code' = -1
            /\ pc' = "paths"
            /\ config' = read_config(disk)[1]
            /\ rules' = generate_rules_from_config(read_config(disk)[1])

\* ----------------------------------------------------- main: lines 112-143
\* The canonical form of each path, or None when one canonicalize() fails.
RECURSIVE CanonicalizeAll(_)
CanonicalizeAll(paths) ==
    IF paths = <<>> THEN Some(<<>>)
    ELSE IF Canonicalize(Head(paths)) = None THEN None
    ELSE IF CanonicalizeAll(Tail(paths)) = None THEN None
    ELSE Some(<<Canonicalize(Head(paths))[1]>> \o CanonicalizeAll(Tail(paths))[1])

\* `?` in main: the Err is returned, the runtime prints it and exits with 1.
Abort(what) ==
    /\ stderr' = Append(stderr, Say(what))
    /\ exit_code' = 1
    /\ pc' = "exited"

\* A panic (to_str().unwrap() on a name that is not valid UTF-8, or a
\* println! whose write to stdout fails): the runtime prints the panic
\* message and the process exits with 101.  Standard output can fail at any
\* write; writes to standard error are taken to succeed.
Panic ==
    /\ stderr' = Append(stderr, Say("thread main panicked"))
    /\ exit_code' = PanicExitCode
    /\ pc' = "exited"

ResolveWith(paths) ==
    IF CanonicalizeAll(paths) = None
    THEN Abort("Error: canonicalize") /\ UNCHANGED specified_paths
    ELSE /\ specified_paths' = CanonicalizeAll(paths)[1]
         /\ pc' = "walk"
         /\ UNCHANGED <<stderr, exit_code>>

ResolvePaths ==
    /\ pc = "paths"
    /\ IF args.pre_commit
       THEN \E git \in GitOutputs :
               IF git.success
               THEN ResolveWith(git.lines)
               ELSE /\ stderr' = Append(stderr, Say("Error running git"))
                    /\ exit_code' = 1
                    /\ pc' = "exited"
                    /\ UNCHANGED specified_paths
       ELSE ResolveWith(args.files)
    /\ UNCHANGED <<disk, args, config, rules, pos, yielded, entry, ruleIdx,
                   file_contents, violations, warnings_by_id, errors_by_id,
                   warnKeys, errKeys, stdout, reads, origin, lastStep, scanDone,
                   prompts, answer, initLog>>

\* ----------------------------------------------------- main: lines 147-160
\* The walk yields its next item; which entries it yields (ignore files,
\* hidden entries) is the ignore crate's business and is left open.
WalkNext ==
    /\ pc = "walk"
    /\ yielded < MaxEntries
    /\ \E j \in (pos + 1)..Len(Tree) :
          /\ pos' = j
          /\ yielded' = yielded + 1
          /\ IF Tree[j].walk = "err"
             THEN /\ stderr' = Append(stderr, Say("Error: walk"))
                  /\ UNCHANGED <<pc, exit_code, entry, ruleIdx, reads>>
             ELSE IF Tree[j].meta = "fail"
             THEN /\ Abort("Error: metadata")
                  /\ UNCHANGED <<entry, ruleIdx, reads>>
             ELSE IF Tree[j].meta = "dir" \/ Len(rules) = 0
             THEN UNCHANGED <<pc, exit_code, stderr, entry, ruleIdx, reads>>
             ELSE /\ entry' = j
                  /\ ruleIdx' = 1
                  /\ reads' = 0
                  /\ pc' = "rules"
                  /\ UNCHANGED <<exit_code, stderr>>
    /\ file_contents' = <<>>
    /\ lastStep' = NoStep
    /\ UNCHANGED <<disk, args, config, rules, specified_paths, violations,
                   warnings_by_id, errors_by_id, warnKeys, errKeys, stdout,
                   origin, scanDone, prompts, answer, initLog>>

\* ----------------------------------------------------- main: lines 161-213
\* Mutant: an include match wins over an exclude match.
SkipByGlobsIncludeWins(rule, path) ==
    IF GlobSetIsEmpty(rule.includes)
    THEN GlobSetIsMatch(rule.excludes, path)
    ELSE ~GlobSetIsMatch(rule.includes, path)

\* The two glob tests of the `continue` condition (lines 162-163).
SkipByGlobs(rule, path) ==
    \/ (~GlobSetIsEmpty(rule.includes) /\ ~GlobSetIsMatch(rule.includes, path))
    \/ GlobSetIsMatch(rule.excludes, path)

\* The third test (lines 164-166) calls canonicalize()?, and only when
\* specified_paths is not empty.
NeedsCanonical(paths) == paths /= <<>>

SkipBySpecified(paths, item) ==
    NeedsCanonical(paths) /\ item.canon[1] \notin Range(paths)

\* `if file_contents.is_empty()`: the buffer doubles as the "already read" flag.
MustRead(contents) == contents = <<>>

\* Violation { rule_id, severity, file, lines }
Violation(rule, item, lines) ==
    [rule_id |-> rule.id, severity |-> rule.severity,
     file |-> FileName(item.path), lines |-> lines]

\* What the lines 196-212 add to violations.
Pushed(rule, item, text) ==
    IF MatchLines(rule.regex, text) /= <<>>
    THEN <<Violation(rule, item, MatchLines(rule.regex, text))>>
    ELSE <<>>

\* The end of one iteration of `for rule in &rules`.
NextRule ==
    IF ruleIdx < Len(rules)
    THEN ruleIdx' = ruleIdx + 1 /\ pc' = "rules"
    ELSE ruleIdx' = 0 /\ pc' = "walk"

RuleStep ==
    /\ pc = "rules"
    /\ LET rule == rules[ruleIdx]
           item == Tree[entry]
           step == [rule |-> ruleIdx, entry |-> entry, passed |-> FALSE,
                    scanned |-> FALSE, text |-> <<>>, pushed |-> FALSE]
       IN IF SkipByGlobs(rule, item.path)
          THEN /\ NextRule
               /\ lastStep' = step
               /\ UNCHANGED <<file_contents, violations, origin, reads,
                              stderr, exit_code>>
          ELSE IF NeedsCanonical(specified_paths) /\ item.canon = None
          THEN /\ Abort("Error: canonicalize entry")
               /\ lastStep' = step
               /\ UNCHANGED <<ruleIdx, file_contents, violations, origin, reads>>
          ELSE IF SkipBySpecified(specified_paths, item)
          THEN /\ NextRule
               /\ lastStep' = step
               /\ UNCHANGED <<file_contents, violations, origin, reads,
                              stderr, exit_code>>
          ELSE IF MustRead(file_contents) /\ (~item.open \/ ~item.utf8)
                  /\ ~IsUtf8(item.path)
          THEN \* entry.path().to_str().unwrap() inside the eprintln!
               /\ Panic
               /\ reads' = reads + 1
               /\ lastStep' = [step EXCEPT !.passed = TRUE]
               /\ UNCHANGED <<ruleIdx, file_contents, violations, origin>>
          ELSE IF MustRead(file_contents) /\ ~item.open
          THEN /\ NextRule
               /\ reads' = reads + 1
               /\ stderr' = Append(stderr, Say("Error: Failed to open"))
               /\ lastStep' = [step EXCEPT !.passed = TRUE]
               /\ UNCHANGED <<file_contents, violations, origin, exit_code>>
          ELSE IF MustRead(file_contents) /\ ~item.utf8
          THEN /\ NextRule
               /\ reads' = reads + 1
               /\ stderr' = Append(stderr, Say("Error: Failed to read"))
               /\ lastStep' = [step EXCEPT !.passed = TRUE]
               /\ UNCHANGED <<file_contents, violations, origin, exit_code>>
          ELSE LET text == IF MustRead(file_contents) THEN item.content
                           ELSE file_contents
               IN /\ NextRule
                  /\ reads' = IF MustRead(file_contents) THEN reads + 1 ELSE reads
                  /\ file_contents' = text
                  /\ violations' = violations \o Pushed(rule, item, text)
                  /\ origin' = IF Pushed(rule, item, text) = <<>> THEN origin
                               ELSE Append(origin, [rule |-> ruleIdx,
                                                    entry |-> entry])
                  /\ lastStep' = [step EXCEPT !.passed = TRUE,
                                              !.scanned = TRUE,
                                              !.text = text,
                                              !.pushed =
                                                  Pushed(rule, item, text) /= <<>>]
                  /\ UNCHANGED <<stderr, exit_code>>
    /\ UNCHANGED <<disk, args, config, rules, specified_paths, pos, yielded,
                   entry, warnings_by_id, errors_by_id, warnKeys, errKeys,
                   stdout, scanDone, prompts, answer, initLog>>

\* ----------------------------------------------------- main: lines 218-240
IsWarning(v) == v.severity = "Warning"
IsError(v) == v.severity = "Error"

\* .partition(|violation| matches!(severity, Warning)): (warnings, errors).
Partition(vs) == <<SelectSeq(vs, IsWarning), SelectSeq(vs, IsError)>>

\* Mutant: a later violation of a rule replaces the earlier ones.
InsertReplacing(map, v) ==
    [k \in DOMAIN map \cup {v.rule_id} |->
        IF k = v.rule_id THEN <<v>> ELSE map[k]]

\* map.entry(rule_id).or_insert(Vec::new()).push(v)
Insert(map, v) ==
    [k \in DOMAIN map \cup {v.rule_id} |->
        IF k \in DOMAIN map
        THEN (IF k = v.rule_id THEN Append(map[k], v) ELSE map[k])
        ELSE <<v>>]

\* The loop that fills warnings_by_id (and errors_by_id).
RECURSIVE GroupInto(_, _)
GroupInto(map, vs) ==
    IF vs = <<>> THEN map ELSE GroupInto(Insert(map, Head(vs)), Tail(vs))

GroupById(vs) == GroupInto(EmptyMap, vs)

\* The walk is exhausted: partition, then group.
Aggregate ==
    /\ pc = "walk"
    /\ warnings_by_id' = GroupById(Partition(violations)[1])
    /\ errors_by_id' = GroupById(Partition(violations)[2])
    /\ warnKeys' = DOMAIN GroupById(Partition(violations)[1])
    /\ errKeys' = DOMAIN GroupById(Partition(violations)[2])
    /\ pc' = "report"
    /\ scanDone' = TRUE
    /\ lastStep' = NoStep
    /\ UNCHANGED <<disk, args, config, rules, specified_paths, pos, yielded,
                   entry, ruleIdx, file_contents, violations, stdout, stderr,
                   exit_code, reads, origin, prompts, answer, initLog>>

\* ----------------------------------------------------- main: lines 242-305
\* config.rules.iter().find(|rule| &rule.id == rule_id).unwrap().message
RECURSIVE FindMessage(_, _)
FindMessage(rs, id) ==
    IF Head(rs).id = id THEN Head(rs).message ELSE FindMessage(Tail(rs), id)

\* Mutant: only the first violation of a group is printed.
GroupLinesFirstOnly(found, present, id, group) ==
    <<Line(found, id, FindMessage(config.rules, id), <<>>, <<>>),
      Line(present, "", "", group[1].file, JoinLines(group[1].lines))>>

\* The lines printed for one rule id: the message, then one line per violation.
GroupLines(found, present, id, group) ==
    <<Line(found, id, FindMessage(config.rules, id), <<>>, <<>>)>>
    \o [i \in 1..Len(group) |->
          Line(present, "", "", group[i].file, JoinLines(group[i].lines))]

\* How many of the 1 + Len(group) println! calls of a group can complete:
\* violation.file.to_str().unwrap() panics at the first violation whose file
\* name is not valid UTF-8, before its line is printed.
Printable(group) ==
    IF \A i \in 1..Len(group) : IsUtf8(group[i].file) THEN Len(group) + 1
    ELSE CHOOSE i \in 1..Len(group) :
            /\ ~IsUtf8(group[i].file)
            /\ \A j \in 1..(i - 1) : IsUtf8(group[j].file)

Take(q, n) == SubSeq(q, 1, IF n < Len(q) THEN n ELSE Len(q))

\* Printing one group: println! panics when the write to stdout fails, so
\* any number n of the printable lines may be written before a panic; the
\* group is complete when all 1 + Len(group) lines were written.
PrintGroup(found, present, id, group, n) ==
    stdout' = stdout \o Take(GroupLines(found, present, id, group), n)

\* One iteration of `for rule_id in warnings_by_id.keys()`, up to the prompt
\* loop; a HashMap yields its keys in no particular order.
ReportWarning ==
    /\ pc = "report"
    /\ warnKeys /= {}
    /\ \E id \in warnKeys : \E n \in 0..Printable(warnings_by_id[id]) :
          /\ PrintGroup("Found warning", "Warning present in file",
                        id, warnings_by_id[id], n)
          /\ warnKeys' = warnKeys \ {id}
          /\ IF n < Len(warnings_by_id[id]) + 1
             THEN Panic
             ELSE /\ pc' = IF args.no_confirm THEN "report" ELSE "prompt"
                  /\ UNCHANGED <<stderr, exit_code>>
    /\ UNCHANGED <<disk, args, config, rules, specified_paths, pos, yielded,
                   entry, ruleIdx, file_contents, violations, warnings_by_id,
                   errors_by_id, errKeys, reads, origin,
                   lastStep, scanDone, prompts, answer, initLog>>

\* Mutant: only the newline is removed before the comparison.
PromptVerdictUntrimmed(input) ==
    IF input = <<"y", "\n">> THEN "break"
    ELSE IF input = <<"n", "\n">> THEN "exit"
    ELSE "continue"

\* `match input.trim()`: what one line typed at the prompt leads to.
PromptVerdict(input) ==
    IF Trim(input) = <<"y">> THEN "break"
    ELSE IF Trim(input) = <<"n">> THEN "exit"
    ELSE "continue"

\* One iteration of the prompt loop (lines 268-281).
\* print! leaves the prompt in stdout's line buffer; flush()? writes it or
\* returns the Err from main.  read_line()? appends the line to the empty
\* `input` or, on bytes that are not valid UTF-8, returns the Err from main.
Prompt ==
    /\ pc = "prompt"
    /\ prompts < MaxPrompts
    /\ prompts' = prompts + 1
    /\ \E flushed \in BOOLEAN, bytes \in InputLines :
          IF ~flushed
          THEN /\ answer' = Asked(FALSE, <<>>, <<>>)
               /\ Abort("Error: flush")
               /\ UNCHANGED stdout
          ELSE /\ stdout' = Append(stdout, Say("Ignore warning? y/n "))
               /\ IF ~IsUtf8(bytes)
                  THEN /\ answer' = Asked(TRUE, bytes, <<>>)
                       /\ Abort("Error: read_line")
                  ELSE /\ answer' = Asked(TRUE, bytes, bytes)
                       /\ IF PromptVerdict(bytes) = "break"
                          THEN pc' = "report" /\ UNCHANGED <<stderr, exit_code>>
                          ELSE IF PromptVerdict(bytes) = "exit"
                          THEN /\ stderr' = Append(stderr,
                                                   Say("Failing due to warnings"))
                               /\ exit_code' = 1
                               /\ pc' = "exited"
                          ELSE UNCHANGED <<pc, stderr, exit_code>>
    /\ UNCHANGED <<disk, args, config, rules, specified_paths, pos, yielded,
                   entry, ruleIdx, file_contents, violations, warnings_by_id,
                   errors_by_id, warnKeys, errKeys, reads, origin, lastStep,
                   scanDone, initLog>>

\* One iteration of `for rule_id in errors_by_id.keys()`.
ReportError ==
    /\ pc = "report"
    /\ warnKeys = {}
    /\ errKeys /= {}
    /\ \E id \in errKeys : \E n \in 0..Printable(errors_by_id[id]) :
          /\ PrintGroup("Found error", "Error present in file",
                        id, errors_by_id[id], n)
          /\ errKeys' = errKeys \ {id}
          /\ IF n < Len(errors_by_id[id]) + 1
             THEN Panic
             ELSE UNCHANGED <<pc, stderr, exit_code>>
    /\ UNCHANGED <<disk, args, config, rules, specified_paths, pos, yielded,
                   entry, ruleIdx, file_contents, violations, warnings_by_id,
                   errors_by_id, warnKeys, reads, origin,
                   lastStep, scanDone, prompts, answer, initLog>>

\* ----------------------------------------------------- main: lines 307-312
\* Mutant: the flag is not consulted, any warning fails the run.
FailsPolicyIgnoringFlag(a, warnings, errors) ==
    DOMAIN errors /= {} \/ DOMAIN warnings /= {}

\* The condition of the final `if`.
FailsPolicy(a, warnings, errors) ==
    DOMAIN errors /= {} \/ (a.error_on_warning /\ DOMAIN warnings /= {})

Finish ==
    /\ pc = "report"
    /\ warnKeys = {}
    /\ errKeys = {}
    /\ IF FailsPolicy(args, warnings_by_id, errors_by_id)
       THEN /\ stderr' = Append(stderr, Say("Failing due to errors"))
            /\ exit_code' = 1
       ELSE /\ exit_code' = 0
            /\ UNCHANGED stderr
    /\ pc' = "exited"
    /\ UNCHANGED <<disk, args, config, rules, specified_paths, pos, yielded,
                   entry, ruleIdx, file_contents, violations, warnings_by_id,
                   errors_by_id, warnKeys, errKeys, stdout, reads, origin,
                   lastStep, scanDone, prompts, answer, initLog>>

\* ------------------------------------------------------------ specification
Next ==
    \/ init_config
    \/ StartLint
    \/ ResolvePaths
    \/ WalkNext
    \/ RuleStep
    \/ Aggregate
    \/ ReportWarning
    \/ Prompt
    \/ ReportError
    \/ Finish

Spec == Init /\ [][Next]_vars

\* ---------------------------------------------------- vocabulary of the claims
Indices(q) == 1..Len(q)

HasSeverity(sev) == \E i \in Indices(violations) : violations[i].severity = sev

\* The run was ended by the `n` arm of the prompt.
Declined == stderr /= <<>> /\ stderr[Len(stderr)].kind = "Failing due to warnings"

\* The line a user entered, without the newline that ends it.
Chomp(line) ==
    IF line /= <<>> /\ line[Len(line)] = "\n" THEN SubSeq(line, 1, Len(line) - 1)
    ELSE line

\* The scope test as the specification words it.
MatchesSome(globs, path) == \E g \in Range(globs) : GlobMatch(g, path)
InScope(rule, path) ==
    /\ rule.includes = <<>> \/ MatchesSome(rule.includes, path)
    /\ ~MatchesSome(rule.excludes, path)

\* Mode B: the staged-files flag or an explicit file list restricts the run.
ModeB == args.pre_commit \/ args.files /= <<>>

\* Leftmost-first, non-overlapping matches, stated as a set of start offsets.
AltAt(alt, text, k) ==
    k + Len(alt) <= Len(text) /\ \A i \in 1..Len(alt) : text[k + i] = alt[i]
AltLenAt(regex, text, k) ==
    LET hits == {i \in Indices(regex) : AltAt(regex[i], text, k)}
    IN IF hits = {} THEN 0
       ELSE Len(regex[CHOOSE i \in hits : \A j \in hits : i <= j])
MatchStarts(regex, text) ==
    CHOOSE S \in SUBSET (0..(Len(text) - 1)) :
        \A k \in 0..(Len(text) - 1) :
            k \in S <=> /\ AltLenAt(regex, text, k) > 0
                        /\ \A j \in S : j < k => j + AltLenAt(regex, text, j) <= k
NewlinesBefore(text, k) == Cardinality({i \in 1..k : text[i] = "\n"})
\* The i-th smallest element of a set of numbers.
Nth(S, i) == CHOOSE k \in S : Cardinality({j \in S : j < k}) = i - 1

\* Line numbers joined by ", ", for one-digit numbers: d, d, d ...
Digit(n) == <<"0", "1", "2", "3", "4", "5", "6", "7", "8", "9">>[n + 1]
IsJoinOf(text, lines) ==
    /\ Len(text) = IF lines = <<>> THEN 0 ELSE 3 * Len(lines) - 2
    /\ \A i \in Indices(lines) :
          /\ text[3 * i - 2] = Digit(lines[i])
          /\ i < Len(lines) => text[3 * i - 1] = "," /\ text[3 * i] = " "

\* ------------------------------------------------------------------ claims

\* How a run ended, read off what it left behind.
Panicked == stderr /= <<>> /\ stderr[Len(stderr)].kind = "thread main panicked"
PromptIoFailed == prompts > 0 /\ (~answer.flushed \/ ~IsUtf8(answer.stdin))
AnsweredNo == prompts > 0 /\ answer.flushed /\ Trim(answer.input) = <<"n">>

\* C1 (as claimed): a run that reaches reporting exits with 1 exactly when an
\* error-severity violation exists, or error_on_warning is set and a warning
\* exists, or a warning prompt was answered n; otherwise it exits with 0.
C1_ExitCode ==
    (pc = "exited" /\ scanDone) =>
        /\ exit_code \in {0, 1}
        /\ exit_code = 1 <=>
              \/ HasSeverity("Error")
              \/ (args.error_on_warning /\ HasSeverity("Warning"))
              \/ AnsweredNo

\* C1 (amended): a run that reaches reporting exits with 101 exactly when it
\* panics while printing a group (which takes a violation to print); a run
\* that does not panic exits with 1 exactly when an error-severity violation
\* exists, or error_on_warning is set and a warning exists, or a warning
\* prompt was answered n, or the flush or the read of a warning prompt
\* failed; otherwise it exits with 0.
C1_ExitCodeOrFailure ==
    (pc = "exited" /\ scanDone) =>
        /\ exit_code \in {0, 1, PanicExitCode}
        /\ exit_code = PanicExitCode <=> Panicked
        /\ Panicked => violations /= <<>> /\ ~AnsweredNo /\ ~PromptIoFailed
        /\ ~Panicked =>
              (exit_code = 1 <=>
                  \/ HasSeverity("Error")
                  \/ (args.error_on_warning /\ HasSeverity("Warning"))
                  \/ AnsweredNo
                  \/ PromptIoFailed)

C1_Witness ==
    /\ pc = "exited" /\ scanDone /\ exit_code = 1
    /\ ~HasSeverity("Error") /\ HasSeverity("Warning")
    /\ ~args.error_on_warning /\ PromptIoFailed
    /\ ~IsUtf8(answer.stdin)

\* C2: a rule iteration goes on to the file exactly when the include/exclude
\* test of the specification holds (and, in mode B, the file is in the
\* supplied set): a path matching an include and an exclude glob is never
\* matched against, and a rule without globs is in scope for every file.
C2_ScopeTest ==
    (lastStep.rule /= 0 /\ pc /= "exited") =>
        LET rule == rules[lastStep.rule]
            item == Tree[lastStep.entry]
            both == /\ MatchesSome(rule.includes, item.path)
                    /\ MatchesSome(rule.excludes, item.path)
        IN /\ lastStep.passed =>  InScope(rule, item.path)
           /\ specified_paths = <<>> =>
                 (lastStep.passed <=> InScope(rule, item.path))
           /\ specified_paths /= <<>> =>
                 (lastStep.passed <=> /\ InScope(rule, item.path)
                                      /\ item.canon[1] \in Range(specified_paths))
           /\ both => ~lastStep.passed /\ ~lastStep.scanned
           /\ (rule.includes = <<>> /\ rule.excludes = <<>>
               /\ specified_paths = <<>>) => lastStep.passed

C2_Witness ==
    /\ lastStep.rule /= 0
    /\ MatchesSome(rules[lastStep.rule].includes, Tree[lastStep.entry].path)
    /\ MatchesSome(rules[lastStep.rule].excludes, Tree[lastStep.entry].path)
    /\ ~lastStep.passed

\* C3: with no config file to start with, of two init runs that both end
\* with success the first writes the example config and the second finds it:
\* it leaves the file as it is, says that the config already exists and
\* writes nothing.
C3_SecondInitFindsConfig ==
    (/\ Len(initLog) >= 2 /\ initLog[1].before = None
     /\ initLog[1].exit = 0 /\ initLog[2].exit = 0) =>
        /\ initLog[1].wrote
        /\ initLog[1].after = Some(ExampleRuleConfig)
        /\ initLog[2].after = initLog[2].before
        /\ initLog[2].said = "Config already exists!"
        /\ ~initLog[2].wrote

\* C4: in mode B a file is matched against a rule, and can yield a violation,
\* only if its canonical path is in the supplied set, whatever the set,
\* a staged-file listing of zero paths included.
C4_OnlySuppliedPaths ==
    ModeB =>
        /\ lastStep.passed =>
              /\ Tree[lastStep.entry].canon /= None
              /\ Tree[lastStep.entry].canon[1] \in Range(specified_paths)
        /\ \A k \in Indices(origin) :
              /\ Tree[origin[k].entry].canon /= None
              /\ Tree[origin[k].entry].canon[1] \in Range(specified_paths)

\* C5: while one file is processed against the rule list it is read from
\* disk at most once, whatever its content and whether or not the open or
\* the read failed.
C5_ReadAtMostOnce == reads <= 1

\* C6: once the walk has started, no failure of a single file or entry ends
\* the run: the run ends only after the walk loop has finished.
C6_ScanNeverAborts ==
    (args.command = "lint" /\ pc = "exited" /\ yielded > 0) => scanDone

\* What one more pass of the prompt loop does, given which entered texts
\* count as y and as n and which passes fail.
PromptStep(isYes, isNo, isFailure) ==
    (prompts' = prompts + 1) =>
        /\ pc = "prompt" /\ ~args.no_confirm
        /\ UNCHANGED <<violations, warnings_by_id, errors_by_id, warnKeys, errKeys>>
        /\ IF isFailure THEN pc' = "exited" /\ exit_code' = 1
           ELSE IF isYes THEN pc' = "report" /\ exit_code' = -1 /\ stderr' = stderr
           ELSE IF isNo THEN pc' = "exited" /\ exit_code' = 1
           ELSE pc' = "prompt" /\ exit_code' = -1 /\ stderr' = stderr

\* C7 (as claimed): the prompt repeats until the entered line is exactly y or
\* exactly n; y continues with the next rule, n ends the run with exit code 1,
\* any other input re-prompts and changes nothing; no_confirm means no prompt.
C7_ExactLine ==
    [][PromptStep(Chomp(answer'.stdin) = <<"y">>, Chomp(answer'.stdin) = <<"n">>,
                  FALSE)]_vars

\* C7 (amended): the same, with the entered line compared after its leading
\* and trailing whitespace is removed, and with a pass whose flush fails or
\* whose line is not valid UTF-8 ending the run with exit code 1.
C7_TrimmedLineOrFailure ==
    [][PromptStep(Trim(answer'.stdin) = <<"y">>, Trim(answer'.stdin) = <<"n">>,
                  ~answer'.flushed \/ ~IsUtf8(answer'.stdin))]_vars

C7_Witness ==
    /\ prompts = 2 /\ Cardinality(DOMAIN warnings_by_id) = 1
    /\ answer.stdin = <<" ", "y", "\n">> /\ pc = "report"

\* C8: for a rule and an in-scope file whose content was read, with m
\* leftmost-first non-overlapping matches: no Violation when m = 0, else
\* exactly one, with the rule's id and severity and m line numbers, the i-th
\* being 1 + the number of newlines before the i-th match.
C8_OneViolationPerFile ==
    lastStep.scanned =>
        LET rule == rules[lastStep.rule]
            item == Tree[lastStep.entry]
            S == MatchStarts(rule.regex, item.content)
            m == Cardinality(S)
            mine == {k \in Indices(origin) :
                        origin[k] = [rule |-> lastStep.rule,
                                     entry |-> lastStep.entry]}
        IN /\ lastStep.text = item.content
           /\ Len(origin) = Len(violations)
           /\ Cardinality(mine) = IF m = 0 THEN 0 ELSE 1
           /\ lastStep.pushed <=> m > 0
           /\ m > 0 =>
                 LET v == violations[Len(violations)]
                 IN /\ mine = {Len(violations)}
                    /\ v.rule_id = rule.id
                    /\ v.severity = rule.severity
                    /\ Len(v.lines) = m
                    /\ \A i \in 1..m :
                          v.lines[i] = 1 + NewlinesBefore(item.content, Nth(S, i))

C8_Witness ==
    /\ lastStep.scanned /\ lastStep.pushed
    /\ violations[Len(violations)].lines = <<1, 2, 2>>

\* The violations of one error id, in scan order.
ErrorIds == {violations[i].rule_id :
                i \in {k \in Indices(violations) : violations[k].severity = "Error"}}
ErrorGroup(id) ==
    LET IsMine(v) == v.rule_id = id /\ v.severity = "Error"
    IN SelectSeq(violations, IsMine)
ErrorHeads(id) ==
    {p \in Indices(stdout) : stdout[p].kind = "Found error" /\ stdout[p].id = id}
FirstRule(id) ==
    CHOOSE i \in Indices(config.rules) :
        /\ config.rules[i].id = id
        /\ \A j \in 1..(i - 1) : config.rules[j].id /= id

\* Every rule id with an error-severity violation has its message printed once,
\* followed by one line per violation under it.
AllErrorsReported ==
    \A id \in ErrorIds :
        /\ Cardinality(ErrorHeads(id)) = 1
        /\ \A p \in ErrorHeads(id) :
              /\ stdout[p].message = config.rules[FirstRule(id)].message
              /\ p + Len(ErrorGroup(id)) <= Len(stdout)
              /\ \A i \in Indices(ErrorGroup(id)) :
                    /\ stdout[p + i].kind = "Error present in file"
                    /\ stdout[p + i].file = ErrorGroup(id)[i].file
                    /\ IsJoinOf(stdout[p + i].lines, ErrorGroup(id)[i].lines)
              /\ p + Len(ErrorGroup(id)) < Len(stdout) =>
                    stdout[p + Len(ErrorGroup(id)) + 1].kind = "Found error"

\* No prompt follows an error: a prompt comes right after a warning's lines
\* or another prompt, and before every line about an error.
NoPromptForError ==
    \A p \in Indices(stdout) :
        stdout[p].kind = "Ignore warning? y/n " =>
            /\ p > 1
            /\ stdout[p - 1].kind \in {"Warning present in file",
                                       "Ignore warning? y/n "}
            /\ \A q \in 1..p : stdout[q].kind \notin {"Found error",
                                                      "Error present in file"}

\* What is printed about errors is never wrong: each message at most once,
\* for an id that has errors, followed by the lines of its violations in scan
\* order as far as the output goes, and only a panic leaves a group short.
ErrorsPrintedSoFar ==
    /\ \A p \in Indices(stdout) :
          /\ stdout[p].kind = "Found error" =>
                /\ stdout[p].id \in ErrorIds
                /\ ErrorHeads(stdout[p].id) = {p}
                /\ stdout[p].message = config.rules[FirstRule(stdout[p].id)].message
                /\ \A i \in Indices(ErrorGroup(stdout[p].id)) :
                      p + i <= Len(stdout) =>
                          /\ stdout[p + i].kind = "Error present in file"
                          /\ stdout[p + i].file = ErrorGroup(stdout[p].id)[i].file
                          /\ IsJoinOf(stdout[p + i].lines,
                                      ErrorGroup(stdout[p].id)[i].lines)
                /\ p + Len(ErrorGroup(stdout[p].id)) < Len(stdout) =>
                      stdout[p + Len(ErrorGroup(stdout[p].id)) + 1].kind = "Found error"
                /\ p + Len(ErrorGroup(stdout[p].id)) > Len(stdout) => Panicked
          /\ stdout[p].kind = "Error present in file" =>
                /\ p > 1
                /\ stdout[p - 1].kind \in {"Found error", "Error present in file"}

NoErrorPrinted ==
    \A p \in Indices(stdout) :
        stdout[p].kind \notin {"Found error", "Error present in file"}

\* The report as the claim describes it.
ErrorsReported == AllErrorsReported /\ NoPromptForError

\* C9 (as claimed): in every run that completes the scan, the errors are
\* reported as above.
C9_ErrorsAlwaysReported == (pc = "exited" /\ scanDone) => ErrorsReported

\* C9 (amended): no prompt ever follows an error and what is printed about
\* errors is never wrong; a run that completes the scan reports every error
\* as above unless an n answer, a failed flush or read of a warning prompt,
\* or a panic while printing ends it; a run ended by an n answer or a failed
\* prompt prints nothing about errors.
C9_ErrorsReportedUnlessCutShort ==
    /\ NoPromptForError
    /\ ErrorsPrintedSoFar
    /\ (pc = "exited" /\ scanDone /\ ~Declined /\ ~PromptIoFailed /\ ~Panicked)
          => AllErrorsReported
    /\ (scanDone /\ (Declined \/ PromptIoFailed)) => NoErrorPrinted

C9_Witness ==
    /\ pc = "exited" /\ scanDone /\ prompts > 0
    /\ ~Declined /\ ~PromptIoFailed /\ ~Panicked
    /\ \E id \in DOMAIN errors_by_id : Len(errors_by_id[id]) = 2

\* C10: every violation is in exactly one of the two maps, the one of its
\* severity, under its own rule id, once, and each group keeps scan order.
C10_PartitionAndGroup ==
    scanDone =>
        \A sev \in {"Warning", "Error"} :
            LET map == IF sev = "Warning" THEN warnings_by_id ELSE errors_by_id
                ids == {violations[i].rule_id :
                           i \in {k \in Indices(violations) :
                                     violations[k].severity = sev}}
            IN /\ DOMAIN map = ids
               /\ \A id \in ids :
                     LET IsMine(v) == v.rule_id = id /\ v.severity = sev
                     IN map[id] = SelectSeq(violations, IsMine)

C10_Witness ==
    /\ scanDone
    /\ DOMAIN warnings_by_id /= {} /\ DOMAIN errors_by_id /= {}
    /\ \E id \in DOMAIN warnings_by_id : Len(warnings_by_id[id]) = 2
    /\ \E id \in DOMAIN warnings_by_id \cap DOMAIN errors_by_id : TRUE

====
